---- MODULE Spec2Model ----
(***************************************************************************)
(* Padded transformations (padTransf.py): warpPerspectivePadded() and      *)
(* warpAffinePadded().  One call is modelled as a sequence of steps, one   *)
(* per block of the function body; the arguments of the call are drawn in  *)
(* Init and the images when the body first reads them.                     *)
(*                                                                         *)
(* A float64 is <<n, d, e, r>>: the value (n / d) * 2^(63 e), n / d in     *)
(* lowest terms, d > 0, rounded to a double when r = 1 (the double is      *)
(* within a rounding error of the value shown, on either side) and exactly *)
(* that value when r = 0.  d = 0 marks nan, the infinities and the floats  *)
(* the model does not determine.  An int64 is <<k, v>>: k * 2^63 + v, or    *)
(* ANYINT where the model does not determine it.  A value the model does   *)
(* not determine stands for every value of its kind: the call goes on with *)
(* it, and whatever is computed from it is not determined either.          *)
(***************************************************************************)
EXTENDS Integers, Sequences, FiniteSets, TLC

(* ------------------------------ bounds -------------------------------- *)
\* source images are 1..MaxSrc rows by 1 or MaxSrc columns
MaxSrc == 2
\* destination images are 1..MaxDst rows by 1 or MaxDst columns
MaxDst == 2
\* translation entries of the transform are -MaxShift, 0 or MaxShift
MaxShift == 1

(* ------------------------- cv2 flag constants -------------------------- *)
INTER_NEAREST == 0
INTER_LINEAR == 1
INTER_CUBIC == 2
WARP_INVERSE_MAP == 16
BORDER_CONSTANT == 0

(* ------------------- the C integer of astype(int) ---------------------- *)
\* astype(int) yields a 64-bit C long, <<k, v>> for k * 2^63 + v
Int64(v) == <<0, v>>
INT64_MIN == <<-1, 0>>
INT64_MAX == <<1, -1>>
\* an int64 the model does not determine
ANYINT == <<9, 0>>
IsNeg(x) == x[1] < 0 \/ (x[1] = 0 /\ x[2] < 0)
\* -x on a numpy integer scalar wraps: the minimum is its own negation
NegInt(x) == IF x = INT64_MIN THEN INT64_MIN ELSE <<-x[1], -x[2]>>
Max2(a, b) == IF a >= b THEN a ELSE b
\* max(x, n) for an int64 x and a dimension n
MaxWith(x, n) ==
    IF x = ANYINT THEN ANYINT
    ELSE IF x[1] > 0 THEN x ELSE IF x[1] < 0 THEN Int64(n) ELSE Int64(Max2(x[2], n))
\* x - n for an int64 x and a dimension n, wrapping at the ends of the range
Minus(x, n) ==
    LET v == x[2] - n
    IN  IF x = ANYINT THEN ANYINT
        ELSE IF x[1] = -1 /\ v < 0 THEN <<1, v>>
        ELSE IF x[1] = 1 /\ v >= 0 THEN <<-1, v>>
        ELSE <<x[1], v>>

(* --------------------------- float arithmetic -------------------------- *)
NAN == <<0, 0, 0, 0>>
\* an infinity of either sign: the sign of a zero divisor is not tracked
INF == <<1, 0, 0, 0>>
\* an infinity or nan: a rounding residue, or a zero, over zero
INF_OR_NAN == <<2, 0, 0, 0>>
\* a float the model does not determine: any finite float, an infinity or nan
ANY == <<3, 0, 0, 0>>
\* a finite float the model does not determine
FINITE == <<4, 0, 0, 0>>
\* a finite float the model determines
IsFinite(a) == a[2] # 0
IsZero(a) == a[2] # 0 /\ a[1] = 0
IsExact(a) == a[4] = 0
Either(r, s) == IF r + s > 0 THEN 1 ELSE 0
Abs(x) == IF x < 0 THEN -x ELSE x
RECURSIVE GCD(_, _)
GCD(a, b) == IF b = 0 THEN a ELSE GCD(b, a % b)
RECURSIVE IsPow2(_)
IsPow2(d) == d = 1 \/ (d > 1 /\ d % 2 = 0 /\ IsPow2(d \div 2))
RECURSIVE Pow2(_)
Pow2(k) == IF k = 0 THEN 1 ELSE 2 * Pow2(k - 1)
\* the greatest L with 2^L <= n / d, for n, d > 0
RECURSIVE Log2Floor(_, _)
Log2Floor(n, d) ==
    IF n >= 2 * d THEN Log2Floor(n, 2 * d) + 1
    ELSE IF n < d THEN Log2Floor(2 * n, d) - 1
    ELSE 0
\* numerators and denominators are kept below this limit; a float that needs
\* more is not determined
Limit == Pow2(15)
\* the float (n / d) * 2^(63 e) with rounding mark r, d # 0
Float(n, d, e, r) ==
    LET g == GCD(Abs(n), Abs(d))
        s == IF d < 0 THEN -1 ELSE 1
        p == (s * n) \div g
        q == (s * d) \div g
    IN  IF n = 0 THEN <<0, 1, 0, r>>
        ELSE IF Abs(p) < Limit /\ q < Limit THEN <<p, q, e, r>>
        ELSE FINITE
FromInt(i) == Float(i, 1, 0, 0)
\* a float as the arithmetic reads it
Norm(a) == IF a[2] # 0 /\ (Abs(a[1]) >= Limit \/ a[2] >= Limit) THEN FINITE ELSE a
\* the value shown, whatever the rounding
SameValue(a, b) == <<a[1], a[2], a[3]>> = <<b[1], b[2], b[3]>>
Rounded(a) == IF a[2] # 0 THEN <<a[1], a[2], a[3], 1>> ELSE a
\* the exponent field is within the range of a double
InRange(e) == -15 <= e /\ e <= 15
\* hi + lo rounds to hi, for nonzero floats with hi[3] > lo[3]: lo is below a
\* quarter of the unit in the last place of hi, 2^x in the scale of lo
Absorbed(hi, lo) ==
    LET x == 63 * (hi[3] - lo[3]) - 54 + Log2Floor(Abs(hi[1]), hi[2])
    IN  IF x >= 0 THEN Abs(lo[1]) \div lo[2] < Pow2(IF x > 20 THEN 20 ELSE x)
        ELSE x >= -20 /\ Abs(lo[1]) < 1024 /\ Abs(lo[1]) * Pow2(-x) < lo[2]
IsExactZero(a) == IsZero(a) /\ IsExact(a)
\* the sum of two finite floats: an exact zero changes nothing, a sum of
\* dyadic floats of one scale is exact, a term of a smaller scale is absorbed
\* when it is below the rounding of the other and the sum is not determined
\* otherwise; what is left when rounded floats of scale 2^63 cancel is not
\* determined
FAdd(a, b) ==
    IF IsExactZero(a) THEN b
    ELSE IF IsExactZero(b) THEN a
    ELSE IF IsZero(a) THEN (IF b[3] >= 0 THEN Rounded(b) ELSE FINITE)
    ELSE IF IsZero(b) THEN (IF a[3] >= 0 THEN Rounded(a) ELSE FINITE)
    ELSE IF a[3] = b[3]
    THEN LET n == a[1] * b[2] + b[1] * a[2]
             r == Either(a[4], b[4])
         IN  IF n = 0 /\ r = 1 /\ a[3] > 0 THEN FINITE
             ELSE Float(n, a[2] * b[2], a[3], r)
    ELSE IF a[3] > b[3] THEN (IF Absorbed(a, b) THEN a ELSE FINITE)
    ELSE (IF Absorbed(b, a) THEN b ELSE FINITE)
AddNorm(a, b) ==
    IF a = NAN \/ b = NAN THEN NAN
    ELSE IF a = ANY \/ b = ANY THEN ANY
    ELSE IF a = FINITE THEN (IF IsExactZero(b) THEN FINITE ELSE ANY)
    ELSE IF b = FINITE THEN (IF IsExactZero(a) THEN FINITE ELSE ANY)
    ELSE IF ~IsFinite(a) /\ ~IsFinite(b) THEN INF_OR_NAN
    ELSE IF ~IsFinite(a) THEN a
    ELSE IF ~IsFinite(b) THEN b
    ELSE FAdd(a, b)
\* a + b
RAdd(a, b) == AddNorm(Norm(a), Norm(b))
\* the product of two finite floats: exact for exact factors; a rounding
\* residue scaled by 2^63 is not determined
FMul(a, b) ==
    IF IsExactZero(a) \/ IsExactZero(b) THEN FromInt(0)
    ELSE IF IsZero(a) \/ IsZero(b)
    THEN (IF a[3] + b[3] > 0 THEN FINITE ELSE <<0, 1, 0, 1>>)
    ELSE IF ~InRange(a[3] + b[3]) THEN ANY
    ELSE Float(a[1] * b[1], a[2] * b[2], a[3] + b[3], Either(a[4], b[4]))
\* inf * 0 is nan
TimesZero(a, z) == IF IsExact(z) THEN NAN ELSE INF_OR_NAN
MulNorm(a, b) ==
    IF a = NAN \/ b = NAN THEN NAN
    ELSE IF a = ANY \/ b = ANY THEN ANY
    ELSE IF a = FINITE THEN (IF IsExactZero(b) THEN FromInt(0) ELSE ANY)
    ELSE IF b = FINITE THEN (IF IsExactZero(a) THEN FromInt(0) ELSE ANY)
    ELSE IF ~IsFinite(a) /\ ~IsFinite(b)
    THEN (IF a = INF /\ b = INF THEN INF ELSE INF_OR_NAN)
    ELSE IF ~IsFinite(a) THEN (IF IsZero(b) THEN TimesZero(a, b) ELSE a)
    ELSE IF ~IsFinite(b) THEN (IF IsZero(a) THEN TimesZero(b, a) ELSE b)
    ELSE FMul(a, b)
\* a * b
RMul(a, b) == MulNorm(Norm(a), Norm(b))
RNeg(a) == IF IsFinite(a) THEN <<-a[1], a[2], a[3], a[4]>> ELSE a
RSub(a, b) == RAdd(a, RNeg(b))
\* the quotient of two finite floats: x / 0 is inf, 0 / 0 is nan, never an
\* error (numpy only warns); the quotient of exact floats is exact when it is
\* dyadic and rounded otherwise; a quotient by a rounding residue is not
\* determined
FDiv(a, b) ==
    IF IsZero(b)
    THEN (IF ~IsExact(b) THEN ANY
          ELSE IF ~IsZero(a) THEN INF
          ELSE IF IsExact(a) THEN NAN ELSE INF_OR_NAN)
    ELSE IF IsZero(a) THEN (IF IsExact(a) \/ b[3] >= 0 THEN a ELSE FINITE)
    ELSE IF ~InRange(a[3] - b[3]) THEN ANY
    ELSE LET q == Float(a[1] * b[2], a[2] * b[1], a[3] - b[3], 0)
         IN  IF q = FINITE THEN FINITE
             ELSE IF IsExact(a) /\ IsExact(b) /\ IsPow2(q[2]) THEN q
             ELSE Rounded(q)
DivNorm(a, b) ==
    IF a = NAN \/ b = NAN THEN NAN
    ELSE IF a = ANY \/ b = ANY \/ a = FINITE \/ b = FINITE THEN ANY
    ELSE IF ~IsFinite(a) /\ ~IsFinite(b) THEN NAN
    ELSE IF ~IsFinite(a) THEN a
    ELSE IF ~IsFinite(b) THEN (IF b = INF THEN FromInt(0) ELSE ANY)
    ELSE FDiv(a, b)
\* a / b
RDiv(a, b) == DivNorm(Norm(a), Norm(b))
\* x / x for one and the same float x: exactly 1, or nan
SelfDiv(x) ==
    IF Norm(x) = ANY \/ Norm(x) = FINITE THEN ANY
    ELSE IF ~IsFinite(x) THEN NAN
    ELSE IF ~IsZero(x) THEN FromInt(1)
    ELSE IF IsExact(x) THEN NAN ELSE ANY
Sign(a) == IF a[1] > 0 THEN 1 ELSE IF a[1] < 0 THEN -1 ELSE 0
\* a <= b on the values shown of two finite floats
RLe(a, b) ==
    IF a[3] = b[3] \/ IsZero(a) \/ IsZero(b) THEN a[1] * b[2] <= b[1] * a[2]
    ELSE IF Sign(a) # Sign(b) THEN Sign(a) < Sign(b)
    ELSE IF Sign(a) > 0 THEN a[3] < b[3] ELSE a[3] > b[3]
\* np.floor of a finite float of scale 0, as an integer
RFloor(a) == a[1] \div a[2]
\* mutant of RCeil: floor plus one
RCeilFloorPlusOne(a) == (a[1] \div a[2]) + 1
\* np.ceil of a finite float of scale 0, as an integer
RCeil(a) == -((-a[1]) \div a[2])

(* ------------------------------ matrices ------------------------------- *)
\* a matrix is a tuple of rows, a row a tuple of floats
Shape(m) == <<Len(m), Len(m[1])>>
\* the sum of the first k products, accumulated from the left
RECURSIVE DotFrom(_, _, _)
DotFrom(u, v, k) ==
    IF k = 0 THEN FromInt(0)
    ELSE RAdd(DotFrom(u, v, k - 1), RMul(u[k], v[k]))
Col(m, j) == [i \in 1..Len(m) |-> m[i][j]]
\* numpy's a.dot(b)
Dot(a, b) ==
    [i \in 1..Len(a) |->
        [j \in 1..Len(b[1]) |-> DotFrom(a[i], Col(b, j), Len(a[i]))]]
\* m / s, elementwise
DivBy(m, s) == [i \in 1..Len(m) |-> [j \in 1..Len(m[i]) |-> RDiv(m[i][j], s)]]
\* m / m[r, c], elementwise: the entry (r, c) is divided by itself
DivByEntry(m, r, c) ==
    [i \in 1..Len(m) |->
        [j \in 1..Len(m[i]) |->
            IF i = r /\ j = c THEN SelfDiv(m[r][c]) ELSE RDiv(m[i][j], m[r][c])]]
IntMatrix(m) == [i \in 1..Len(m) |-> [j \in 1..Len(m[i]) |-> FromInt(m[i][j])]]
AllFinite(m) == \A i \in 1..Len(m) : \A j \in 1..Len(m[i]) : IsFinite(m[i][j])

(* ------------------------- inversion primitives ------------------------ *)
Zeros(r, c) == [i \in 1..r |-> [j \in 1..c |-> FromInt(0)]]
Nxt3(i) == (i % 3) + 1
\* signed cofactor of entry (i, j) of a 3x3 matrix (cyclic indices carry the sign)
Cofactor3(m, i, j) ==
    RSub(RMul(m[Nxt3(i)][Nxt3(j)], m[Nxt3(Nxt3(i))][Nxt3(Nxt3(j))]),
         RMul(m[Nxt3(i)][Nxt3(Nxt3(j))], m[Nxt3(Nxt3(i))][Nxt3(j)]))
Det3(m) ==
    RAdd(RAdd(RMul(m[1][1], Cofactor3(m, 1, 1)), RMul(m[1][2], Cofactor3(m, 1, 2))),
         RMul(m[1][3], Cofactor3(m, 1, 3)))
Filled(r, c, v) == [i \in 1..r |-> [j \in 1..c |-> v]]
\* cv2.invert(m)[1]: if det != 0, d = 1 / det and every cofactor times d; a
\* singular matrix is reported in the status cv2.invert(m)[0], which the
\* caller drops, and the matrix returned is all zeros.  Which of the two it
\* is for a determinant that is a rounding residue is not determined
Invert3(m) ==
    LET det == Det3(m)
        d == RDiv(FromInt(1), det)
    IN  IF IsZero(det)
        THEN (IF IsExact(det) THEN Zeros(3, 3) ELSE Filled(3, 3, ANY))
        ELSE [i \in 1..3 |-> [j \in 1..3 |-> RMul(Cofactor3(m, j, i), d)]]
\* cv2.invertAffineTransform(m): D = 1/det of the linear part, or 0 when the
\* determinant is 0; no error in either case
InvertAffine(m) ==
    LET det == RSub(RMul(m[1][1], m[2][2]), RMul(m[1][2], m[2][1]))
        D == IF IsZero(det) THEN (IF IsExact(det) THEN FromInt(0) ELSE ANY)
             ELSE RDiv(FromInt(1), det)
        A11 == RMul(m[2][2], D)
        A22 == RMul(m[1][1], D)
        A12 == RMul(RNeg(m[1][2]), D)
        A21 == RMul(RNeg(m[2][1]), D)
        b1 == RSub(RMul(RNeg(A11), m[1][3]), RMul(A12, m[2][3]))
        b2 == RSub(RMul(RNeg(A21), m[1][3]), RMul(A22, m[2][3]))
    IN  << <<A11, A12, b1>>, <<A21, A22, b2>> >>
\* flags in (WARP_INVERSE_MAP, INTER_LINEAR + WARP_INVERSE_MAP,
\*           INTER_NEAREST + WARP_INVERSE_MAP)
InverseRequested(f) ==
    f \in {WARP_INVERSE_MAP, INTER_LINEAR + WARP_INVERSE_MAP,
           INTER_NEAREST + WARP_INVERSE_MAP}

(* ------------------------------- arrays -------------------------------- *)
\* an array is its shape and its cells, indexed from 0 as in numpy
Indices(shape) ==
    IF Len(shape) = 2
    THEN (0..(shape[1] - 1)) \X (0..(shape[2] - 1))
    ELSE (0..(shape[1] - 1)) \X (0..(shape[2] - 1)) \X (0..(shape[3] - 1))
NoArray == [shape |-> <<>>, px |-> <<>>]
\* a dimension the model does not determine
Unknown == 0 - 1
\* a pad width as a number of cells
Dim(x) == IF x = ANYINT THEN Unknown ELSE x[2]
\* np.pad(a, pw, mode='constant', constant_values=0), for widths below 2^63
\* (k = 0); the cells of an array with a dimension that is not determined
\* are not determined either
NpPad(a, pw) ==
    LET n == Len(a.shape)
        before == [k \in 1..n |-> Dim(pw[k][1])]
        after == [k \in 1..n |-> Dim(pw[k][2])]
        shape == [k \in 1..n |->
                    IF before[k] = Unknown \/ after[k] = Unknown THEN Unknown
                    ELSE before[k] + a.shape[k] + after[k]]
        Inside(ix) == \A k \in 1..n : ix[k] - before[k] \in 0..(a.shape[k] - 1)
    IN  IF \E k \in 1..n : shape[k] = Unknown
        THEN [shape |-> shape, px |-> <<>>]
        ELSE [shape |-> shape,
              px |-> [ix \in Indices(shape) |->
                        IF Inside(ix) THEN a.px[[k \in 1..n |-> ix[k] - before[k]]]
                        ELSE 0]]
\* the exceptions np.pad can raise: it refuses a negative width, and cannot
\* allocate an axis of some 2^63 cells (the size check raises ValueError, the
\* allocation MemoryError); a width that is not determined can be any of
\* these, or one it can allocate
PadRaises(a, pw) ==
    LET W == UNION { { pw[k][1], pw[k][2] } : k \in 1..Len(pw) }
    IN  IF \E w \in W : w # ANYINT /\ IsNeg(w) THEN {"ValueError"}
        ELSE IF \E w \in W : w # ANYINT /\ w[1] # 0 THEN {"ValueError", "MemoryError"}
        ELSE IF ANYINT \in W THEN {"ValueError", "MemoryError", "none"}
        ELSE {"none"}

(* --------------------- corners and bounding box ------------------------ *)
\* lin_homg_pts: the corners clockwise from the origin, homogeneous
LinHomgPts(src_h, src_w) ==
    IntMatrix(<< <<0, src_w, src_w, 0>>, <<0, 0, src_h, src_h>>, <<1, 1, 1, 1>> >>)
\* lin_pts: the corners clockwise from the origin
LinPts(src_h, src_w) ==
    IntMatrix(<< <<0, src_w, src_w, 0>>, <<0, 0, src_h, src_h>> >>)
\* transf.dot(lin_homg_pts), then every row divided by the third row (the
\* third row by itself)
ProjectHomg(t, pts) ==
    LET p == Dot(t, pts)
    IN  [i \in 1..3 |->
            [j \in 1..Len(p[1]) |->
                IF i = 3 THEN SelfDiv(p[3][j]) ELSE RDiv(p[i][j], p[3][j])]]
\* transf[:, :2].dot(lin_pts) + transf[:, 2].reshape(2, 1)
ProjectAffine(t, pts) ==
    LET lin == [i \in 1..2 |-> <<t[i][1], t[i][2]>>]
        p == Dot(lin, pts)
    IN  [i \in 1..2 |-> [j \in 1..Len(p[1]) |-> RAdd(p[i][j], t[i][3])]]
RMinOf(S) == CHOOSE a \in S : \A b \in S : RLe(a, b)
RMaxOf(S) == CHOOSE a \in S : \A b \in S : RLe(b, a)
\* what a float can be when np.min, np.max and the cast read it, as <<rank,
\* float>>: rank 0 is a finite float the model determines, 5 one it does not,
\* -2 and 2 are the infinities, 9 is nan
Readings(v) ==
    IF IsFinite(Norm(v)) THEN { <<0, v>> }
    ELSE IF v = NAN THEN { <<9, v>> }
    ELSE IF v = INF THEN { <<-2, v>>, <<2, v>> }
    ELSE IF v = INF_OR_NAN THEN { <<-2, v>>, <<2, v>>, <<9, v>> }
    ELSE IF v = ANY THEN { <<-2, v>>, <<2, v>>, <<5, v>>, <<9, v>> }
    ELSE { <<5, v>> }
RowReadings(row) ==
    IF \A k \in 1..Len(row) : IsFinite(Norm(row[k]))
    THEN { [k \in 1..Len(row) |-> <<0, row[k]>>] }
    ELSE LET U == UNION { Readings(row[k]) : k \in 1..Len(row) }
         IN  { f \in [1..Len(row) -> U] : \A k \in 1..Len(row) : f[k] \in Readings(row[k]) }
\* the builds: casting a float that is not finite, or is outside the range of
\* the C integer, is undefined.  One build gives the minimum integer for all
\* of them, the other saturates (nan -> 0, above the range -> maximum, below
\* the range -> minimum)
Builds == {"indefinite", "saturating"}
CastNaN(b) == IF b = "indefinite" THEN INT64_MIN ELSE Int64(0)
CastPosInf(b) == IF b = "indefinite" THEN INT64_MIN ELSE INT64_MAX
\* astype(int) of a finite float m of scale 2^63 or more (np.floor and np.ceil
\* leave it as it is): -2^63 is the minimum integer, a larger magnitude is
\* outside the range, a smaller one is an integer the model does not determine
CastBig(m, b) ==
    IF m[3] = 1 /\ Abs(m[1]) < m[2] THEN ANYINT
    ELSE IF m[3] = 1 /\ Abs(m[1]) = m[2]
    THEN (IF ~IsExact(m) THEN ANYINT
          ELSE IF m[1] < 0 THEN INT64_MIN ELSE CastPosInf(b))
    ELSE IF m[1] < 0 THEN INT64_MIN ELSE CastPosInf(b)
\* np.floor(m).astype(int) for the minimum m of the finite floats F: a rounded
\* float shown as an integer may lie just below it
FloorInts(F, b) ==
    LET m == RMinOf(F)
    IN  IF m[3] > 0 THEN { CastBig(m, b) }
        ELSE IF m[3] < 0 THEN { Int64(IF m[1] < 0 THEN 0 - 1 ELSE 0) }
        ELSE IF m[2] = 1 /\ \E v \in F : SameValue(v, m) /\ ~IsExact(v)
        THEN { Int64(RFloor(m) - 1), Int64(RFloor(m)) }
        ELSE { Int64(RFloor(m)) }
\* np.ceil(m).astype(int) for the maximum m of the finite floats F: a rounded
\* float shown as an integer may lie just above it
CeilInts(F, b) ==
    LET m == RMaxOf(F)
    IN  IF m[3] > 0 THEN { CastBig(m, b) }
        ELSE IF m[3] < 0 THEN { Int64(IF m[1] > 0 THEN 1 ELSE 0) }
        ELSE IF m[2] = 1 /\ \E v \in F : SameValue(v, m) /\ ~IsExact(v)
        THEN { Int64(RCeil(m)), Int64(RCeil(m) + 1) }
        ELSE { Int64(RCeil(m)) }
\* np.floor(np.min(row)).astype(int) for one reading R of the row: nan wins
\* over everything, then the least; the least of a row that holds a finite
\* float the model does not determine is not determined
MinInts(R, b) ==
    LET ranks == { R[k][1] : k \in 1..Len(R) }
        F == { R[k][2] : k \in { j \in 1..Len(R) : R[j][1] = 0 } }
    IN  IF 9 \in ranks THEN { CastNaN(b) }
        ELSE IF -2 \in ranks THEN { INT64_MIN }
        ELSE IF 5 \in ranks THEN { ANYINT }
        ELSE IF F # {} THEN FloorInts(F, b)
        ELSE { CastPosInf(b) }
\* np.ceil(np.max(row)).astype(int) for one reading R of the row
MaxInts(R, b) ==
    LET ranks == { R[k][1] : k \in 1..Len(R) }
        F == { R[k][2] : k \in { j \in 1..Len(R) : R[j][1] = 0 } }
    IN  IF 9 \in ranks THEN { CastNaN(b) }
        ELSE IF 2 \in ranks THEN { CastPosInf(b) }
        ELSE IF 5 \in ranks THEN { ANYINT }
        ELSE IF F # {} THEN CeilInts(F, b)
        ELSE { INT64_MIN }
\* the pairs (np.floor(np.min(row)).astype(int), np.ceil(np.max(row)).astype(int))
\* a build can give, over the readings of the row
RowBounds(row, b) ==
    UNION { MinInts(R, b) \X MaxInts(R, b) : R \in RowReadings(row) }
\* find min and max points: the pairs <<(min_x, max_x), (min_y, max_y)>> a
\* build can give
BoxOutcomes(p) ==
    UNION { RowBounds(p[1], b) \X RowBounds(p[2], b) : b \in Builds }
\* anchor = -min if min < 0 else 0
Anchor(mn) ==
    IF mn = ANYINT THEN ANYINT
    ELSE IF IsNeg(mn) THEN NegInt(mn) ELSE Int64(0)
\* the anchor as the float added into the translation matrix: k * 2^63 + v
\* rounds to k * 2^63 for a small v
AnchorFloat(a) ==
    IF a = ANYINT THEN FINITE
    ELSE IF a[1] = 0 THEN FromInt(a[2])
    ELSE IF Abs(a[2]) < 256 THEN <<a[1], 1, 1, 0>>
    ELSE FINITE
\* mutant of PadWidths: the anchors on the wrong axes
PadWidthsSwapped(dst_shape, ax, ay, mx, my) ==
    IF Len(dst_shape) = 3
    THEN << <<ax, Minus(MaxWith(my, dst_shape[1]), dst_shape[1])>>,
            <<ay, Minus(MaxWith(mx, dst_shape[2]), dst_shape[2])>>,
            <<Int64(0), Int64(0)>> >>
    ELSE << <<ax, Minus(MaxWith(my, dst_shape[1]), dst_shape[1])>>,
            <<ay, Minus(MaxWith(mx, dst_shape[2]), dst_shape[2])>> >>
\* pad_widths: (anchor_y, max(max_y, dst_h) - dst_h), (anchor_x, ...), and
\* (0, 0) for the channel axis of a 3-d destination
PadWidths(dst_shape, ax, ay, mx, my) ==
    IF Len(dst_shape) = 3
    THEN << <<ay, Minus(MaxWith(my, dst_shape[1]), dst_shape[1])>>,
            <<ax, Minus(MaxWith(mx, dst_shape[2]), dst_shape[2])>>,
            <<Int64(0), Int64(0)>> >>
    ELSE << <<ay, Minus(MaxWith(my, dst_shape[1]), dst_shape[1])>>,
            <<ax, Minus(MaxWith(mx, dst_shape[2]), dst_shape[2])>> >>
\* transl_transf.dot(transf), then divided by its [2, 2] entry
ShiftHomg(t, ax, ay) ==
    LET transl == << <<FromInt(1), FromInt(0), AnchorFloat(ax)>>,
                     <<FromInt(0), FromInt(1), AnchorFloat(ay)>>,
                     <<FromInt(0), FromInt(0), FromInt(1)>> >>
    IN  DivByEntry(Dot(transl, t), 3, 3)
\* transf + [[0, 0, anchor_x], [0, 0, anchor_y]]
ShiftAffine(t, ax, ay) ==
    << <<RAdd(t[1][1], FromInt(0)), RAdd(t[1][2], FromInt(0)),
         RAdd(t[1][3], AnchorFloat(ax))>>,
       <<RAdd(t[2][1], FromInt(0)), RAdd(t[2][2], FromInt(0)),
         RAdd(t[2][3], AnchorFloat(ay))>> >>

(* ------------------------------- inputs -------------------------------- *)
\* linear parts: identity, quarter turn, shear, singular
LinearParts ==
    { << <<1, 0>>, <<0, 1>> >>, << <<0, -1>>, <<1, 0>> >>, << <<1, 1>>, <<0, 1>> >>,
      << <<1, 1>>, <<1, 1>> >> }
Shifts == {-MaxShift, 0, MaxShift}
\* third rows of the 3x3 transforms, before the bottom-right entry
PerspRows == { <<0, 0>>, <<-1, 0>>, <<1, 1>> }
\* bottom-right entries of the 3x3 transforms, and denominators of the 2x3 ones
Scales == {1, 2}
Transforms3x3 ==
    { IntMatrix(<< <<L[1][1], L[1][2], tx>>, <<L[2][1], L[2][2], ty>>,
                   <<pq[1], pq[2], s>> >>) :
        L \in LinearParts, tx \in Shifts, ty \in Shifts, pq \in PerspRows, s \in Scales }
Transforms2x3 ==
    { DivBy(IntMatrix(<< <<L[1][1], L[1][2], tx>>, <<L[2][1], L[2][2], ty>> >>),
            FromInt(s)) :
        L \in LinearParts, tx \in Shifts, ty \in Shifts, s \in Scales }
Transforms2x2 == { IntMatrix(<< <<1, 0>>, <<0, 1>> >>) }
\* the scaling of x by 2^62: a source two columns wide reaches 2^63
Stretch ==
    << <<Float(1, 2, 1, 0), FromInt(0), FromInt(0)>>,
       <<FromInt(0), FromInt(1), FromInt(0)>> >>
Transforms == Transforms3x3 \cup Transforms2x3 \cup Transforms2x2 \cup {Stretch}
FlagValues ==
    { INTER_LINEAR, WARP_INVERSE_MAP,
      INTER_LINEAR + WARP_INVERSE_MAP, INTER_CUBIC + WARP_INVERSE_MAP }
\* channel counts of the destination; 0 stands for a 2-d (single channel) array
Channels == {0, 2}
\* a destination image whose cells are distinct and nonzero
Image(h, w, ch) ==
    LET shape == IF ch = 0 THEN <<h, w>> ELSE <<h, w, ch>>
    IN  [shape |-> shape,
         px |-> [ix \in Indices(shape) |->
                   IF ch = 0 THEN ix[1] * w + ix[2] + 1
                   ELSE (ix[1] * w + ix[2]) * ch + ix[3] + 1]]
Images == { Image(h, w, ch) : h \in 1..MaxDst, w \in {1, MaxDst}, ch \in Channels }
SrcShapes == (1..MaxSrc) \X {1, MaxSrc}
Functions == {"warpPerspectivePadded", "warpAffinePadded"}

(* -------------------------------- state -------------------------------- *)
VARIABLES
    fn,              \* the function called
    transf_arg,      \* argument: the transform
    flags_arg,       \* argument: flags
    src,             \* argument: shape of the source image, <<>> until read
    dst,             \* argument: the destination image, NoArray until read
    pc,              \* position in the function body
    transf, flags,   \* the locals transf and flags as rebound by the body
    pts,             \* transf_lin_homg_pts / transf_lin_pts
    min_x, min_y, max_x, max_y,
    anchor_x, anchor_y,
    shifted_transf,
    pad_widths,
    dst_padded,
    src_warped,      \* the resampler call and the shape of its result
    err,             \* the exception raised, "none" otherwise
    trace            \* the operations performed so far, in order

vars == << fn, transf_arg, flags_arg, src, dst, pc, transf, flags, pts,
           min_x, min_y, max_x, max_y, anchor_x, anchor_y, shifted_transf,
           pad_widths, dst_padded, src_warped, err, trace >>
args == << fn, transf_arg, flags_arg >>
box == << min_x, min_y, max_x, max_y >>
anchors == << anchor_x, anchor_y >>

NoCall == [prim |-> "none", M |-> <<>>, dsize |-> <<>>, flags |-> 0,
           borderMode |-> 0, borderValue |-> 0, shape |-> <<>>]

Init ==
    /\ fn \in Functions
    /\ transf_arg \in Transforms
    /\ flags_arg \in FlagValues
    /\ src = <<>>
    /\ dst = NoArray
    /\ pc = "assert"
    /\ transf = transf_arg
    /\ flags = flags_arg
    /\ pts = <<>>
    /\ min_x = Int64(0) /\ min_y = Int64(0) /\ max_x = Int64(0) /\ max_y = Int64(0)
    /\ anchor_x = Int64(0) /\ anchor_y = Int64(0)
    /\ shifted_transf = <<>>
    /\ pad_widths = <<>>
    /\ dst_padded = NoArray
    /\ src_warped = NoCall
    /\ err = "none"
    /\ trace = <<>>

\* mutant of WarpCall: dsize given as (rows, columns)
WarpCallRowsFirst(prim, M, dst_pad_w, dst_pad_h, f) ==
    [prim |-> prim, M |-> M, dsize |-> <<dst_pad_h, dst_pad_w>>, flags |-> f,
     borderMode |-> BORDER_CONSTANT, borderValue |-> 0,
     shape |-> <<dst_pad_w, dst_pad_h>>]
\* the resampler call: its arguments and the shape of the image it returns,
\* (rows, columns) = (dsize[1], dsize[0])
WarpCall(prim, M, dst_pad_w, dst_pad_h, f) ==
    [prim |-> prim, M |-> M, dsize |-> <<dst_pad_w, dst_pad_h>>, flags |-> f,
     borderMode |-> BORDER_CONSTANT, borderValue |-> 0,
     shape |-> <<dst_pad_h, dst_pad_w>>]

(* ----------------------- warpPerspectivePadded ------------------------- *)
\* mutant of PerspAssert: only the number of columns is checked
PerspAssertColumnsOnly ==
    /\ fn = "warpPerspectivePadded" /\ pc = "assert"
    /\ IF Shape(transf)[2] = 3
       THEN pc' = "normalize" /\ err' = err
       ELSE pc' = "failed" /\ err' = "AssertionError"
    /\ trace' = Append(trace, "transf.shape")
    /\ UNCHANGED << args, src, dst, transf, flags, pts, box, anchors,
                    shifted_transf, pad_widths, dst_padded, src_warped >>
\* assert transf.shape == (3, 3)
PerspAssert ==
    /\ fn = "warpPerspectivePadded" /\ pc = "assert"
    /\ IF Shape(transf) = <<3, 3>>
       THEN pc' = "normalize" /\ err' = err
       ELSE pc' = "failed" /\ err' = "AssertionError"
    /\ trace' = Append(trace, "transf.shape")
    /\ UNCHANGED << args, src, dst, transf, flags, pts, box, anchors,
                    shifted_transf, pad_widths, dst_padded, src_warped >>

\* transf = transf / transf[2, 2]
PerspNormalize ==
    /\ fn = "warpPerspectivePadded" /\ pc = "normalize"
    /\ transf' = DivByEntry(transf, 3, 3)
    /\ pc' = "inverse"
    /\ trace' = Append(trace, "normalize")
    /\ UNCHANGED << args, src, dst, flags, pts, box, anchors,
                    shifted_transf, pad_widths, dst_padded, src_warped, err >>

\* if flags in (...): transf = cv2.invert(transf)[1]; flags -= WARP_INVERSE_MAP
PerspInverse ==
    /\ fn = "warpPerspectivePadded" /\ pc = "inverse"
    /\ IF InverseRequested(flags)
       THEN /\ transf' = Invert3(transf)
            /\ flags' = flags - WARP_INVERSE_MAP
            /\ trace' = Append(trace, "cv2.invert")
       ELSE UNCHANGED << transf, flags, trace >>
    /\ pc' = "project"
    /\ UNCHANGED << args, src, dst, pts, box, anchors,
                    shifted_transf, pad_widths, dst_padded, src_warped, err >>

\* src_h, src_w = src.shape[:2]; the corners; transform points
PerspProject ==
    /\ fn = "warpPerspectivePadded" /\ pc = "project"
    /\ src' \in SrcShapes
    /\ pts' = ProjectHomg(transf, LinHomgPts(src'[1], src'[2]))
    /\ pc' = "bounds"
    /\ trace' = Append(trace, "src.shape")
    /\ UNCHANGED << args, dst, transf, flags, box, anchors,
                    shifted_transf, pad_widths, dst_padded, src_warped, err >>

\* find min and max points
PerspBounds ==
    /\ fn = "warpPerspectivePadded" /\ pc = "bounds"
    /\ \E o \in BoxOutcomes(pts) :
         /\ min_x' = o[1][1] /\ max_x' = o[1][2]
         /\ min_y' = o[2][1] /\ max_y' = o[2][2]
    /\ pc' = "shift"
    /\ UNCHANGED << args, src, dst, transf, flags, pts, anchors, shifted_transf,
                    pad_widths, dst_padded, src_warped, err, trace >>

\* add translation to the transformation matrix to shift to positive values
PerspShift ==
    /\ fn = "warpPerspectivePadded" /\ pc = "shift"
    /\ anchor_x' = Anchor(min_x)
    /\ anchor_y' = Anchor(min_y)
    /\ shifted_transf' = ShiftHomg(transf, anchor_x', anchor_y')
    /\ pc' = "pad"
    /\ UNCHANGED << args, src, dst, transf, flags, pts, box,
                    pad_widths, dst_padded, src_warped, err, trace >>

\* create padded destination image
PerspPad ==
    /\ fn = "warpPerspectivePadded" /\ pc = "pad"
    /\ dst' \in Images
    /\ pad_widths' = PadWidths(dst'.shape, anchor_x, anchor_y, max_x, max_y)
    /\ err' \in PadRaises(dst', pad_widths')
    /\ IF err' = "none"
       THEN dst_padded' = NpPad(dst', pad_widths') /\ pc' = "warp"
       ELSE dst_padded' = dst_padded /\ pc' = "failed"
    /\ trace' = Append(Append(trace, "dst.shape"), "np.pad")
    /\ UNCHANGED << args, src, transf, flags, pts, box, anchors,
                    shifted_transf, src_warped >>

\* src_warped = cv2.warpPerspective(src, shifted_transf, (dst_pad_w, dst_pad_h),
\* ...); return dst_padded, src_warped
PerspWarp ==
    /\ fn = "warpPerspectivePadded" /\ pc = "warp"
    /\ src_warped' = WarpCall("cv2.warpPerspective", shifted_transf,
                              dst_padded.shape[2], dst_padded.shape[1], flags)
    /\ pc' = "done"
    /\ trace' = Append(trace, "cv2.warpPerspective")
    /\ UNCHANGED << args, src, dst, transf, flags, pts, box, anchors,
                    shifted_transf, pad_widths, dst_padded, err >>

(* -------------------------- warpAffinePadded --------------------------- *)
\* assert transf.shape == (2, 3)
AffineAssert ==
    /\ fn = "warpAffinePadded" /\ pc = "assert"
    /\ IF Shape(transf) = <<2, 3>>
       THEN pc' = "inverse" /\ err' = err
       ELSE pc' = "failed" /\ err' = "AssertionError"
    /\ trace' = Append(trace, "transf.shape")
    /\ UNCHANGED << args, src, dst, transf, flags, pts, box, anchors,
                    shifted_transf, pad_widths, dst_padded, src_warped >>

\* if flags in (...): transf = cv2.invertAffineTransform(transf);
\* flags -= WARP_INVERSE_MAP
AffineInverse ==
    /\ fn = "warpAffinePadded" /\ pc = "inverse"
    /\ IF InverseRequested(flags)
       THEN /\ transf' = InvertAffine(transf)
            /\ flags' = flags - WARP_INVERSE_MAP
            /\ trace' = Append(trace, "cv2.invertAffineTransform")
       ELSE UNCHANGED << transf, flags, trace >>
    /\ pc' = "project"
    /\ UNCHANGED << args, src, dst, pts, box, anchors,
                    shifted_transf, pad_widths, dst_padded, src_warped, err >>

\* src_h, src_w = src.shape[:2]; the corners; transform points
AffineProject ==
    /\ fn = "warpAffinePadded" /\ pc = "project"
    /\ src' \in SrcShapes
    /\ pts' = ProjectAffine(transf, LinPts(src'[1], src'[2]))
    /\ pc' = "bounds"
    /\ trace' = Append(trace, "src.shape")
    /\ UNCHANGED << args, dst, transf, flags, box, anchors,
                    shifted_transf, pad_widths, dst_padded, src_warped, err >>

\* find min and max points
AffineBounds ==
    /\ fn = "warpAffinePadded" /\ pc = "bounds"
    /\ \E o \in BoxOutcomes(pts) :
         /\ min_x' = o[1][1] /\ max_x' = o[1][2]
         /\ min_y' = o[2][1] /\ max_y' = o[2][2]
    /\ pc' = "shift"
    /\ UNCHANGED << args, src, dst, transf, flags, pts, anchors, shifted_transf,
                    pad_widths, dst_padded, src_warped, err, trace >>

\* add translation to the transformation matrix to shift to positive values
AffineShift ==
    /\ fn = "warpAffinePadded" /\ pc = "shift"
    /\ anchor_x' = Anchor(min_x)
    /\ anchor_y' = Anchor(min_y)
    /\ shifted_transf' = ShiftAffine(transf, anchor_x', anchor_y')
    /\ pc' = "pad"
    /\ UNCHANGED << args, src, dst, transf, flags, pts, box,
                    pad_widths, dst_padded, src_warped, err, trace >>

\* create padded destination image
AffinePad ==
    /\ fn = "warpAffinePadded" /\ pc = "pad"
    /\ dst' \in Images
    /\ pad_widths' = PadWidths(dst'.shape, anchor_x, anchor_y, max_x, max_y)
    /\ err' \in PadRaises(dst', pad_widths')
    /\ IF err' = "none"
       THEN dst_padded' = NpPad(dst', pad_widths') /\ pc' = "warp"
       ELSE dst_padded' = dst_padded /\ pc' = "failed"
    /\ trace' = Append(Append(trace, "dst.shape"), "np.pad")
    /\ UNCHANGED << args, src, transf, flags, pts, box, anchors,
                    shifted_transf, src_warped >>

\* src_warped = cv2.warpAffine(src, shifted_transf, (dst_pad_w, dst_pad_h), ...);
\* return dst_padded, src_warped
AffineWarp ==
    /\ fn = "warpAffinePadded" /\ pc = "warp"
    /\ src_warped' = WarpCall("cv2.warpAffine", shifted_transf,
                              dst_padded.shape[2], dst_padded.shape[1], flags)
    /\ pc' = "done"
    /\ trace' = Append(trace, "cv2.warpAffine")
    /\ UNCHANGED << args, src, dst, transf, flags, pts, box, anchors,
                    shifted_transf, pad_widths, dst_padded, err >>

Next ==
    \/ PerspAssert \/ PerspNormalize \/ PerspInverse \/ PerspProject
    \/ PerspBounds \/ PerspShift \/ PerspPad \/ PerspWarp
    \/ AffineAssert \/ AffineInverse \/ AffineProject
    \/ AffineBounds \/ AffineShift \/ AffinePad \/ AffineWarp

Spec == Init /\ [][Next]_vars

(* ------------------------- notions of the claims ----------------------- *)
Perspective == fn = "warpPerspectivePadded"
RightShape == Shape(transf_arg) = (IF Perspective THEN <<3, 3>> ELSE <<2, 3>>)
\* every corner has a finite projection, below 2^63 in magnitude
Valid ==
    /\ pts # <<>>
    /\ \A i \in 1..Len(pts) : \A j \in 1..Len(pts[i]) :
          IsFinite(pts[i][j]) /\ pts[i][j][3] <= 0
HasInverseBit(f) == (f \div WARP_INVERSE_MAP) % 2 = 1
\* the image of the point (x, y) under a 3x3 or 2x3 matrix
Through(M, x, y) ==
    IF Len(M) = 3
    THEN LET c == ProjectHomg(M, << <<x>>, <<y>>, <<FromInt(1)>> >>)
         IN  <<c[1][1], c[2][1]>>
    ELSE LET c == ProjectAffine(M, << <<x>>, <<y>> >>)
         IN  <<c[1][1], c[2][1]>>
Corners == { <<FromInt(0), FromInt(0)>>, <<FromInt(src[2]), FromInt(0)>>,
             <<FromInt(src[2]), FromInt(src[1])>>, <<FromInt(0), FromInt(src[1])>> }
\* points of the source rectangle [0, w] x [0, h], on a grid of halves
SourcePoints ==
    { <<Float(i, 2, 0, 0), Float(j, 2, 0, 0)>> : i \in 0..(2 * src[2]), j \in 0..(2 * src[1]) }
\* lo <= v <= hi for the value shown of a float v and integers lo, hi
Within(v, lo, hi) ==
    IsFinite(v) /\ RLe(FromInt(lo), v) /\ RLe(v, FromInt(hi))
\* the value of an int64 <<0, v>>
Val(x) == x[2]
\* an array all of whose dimensions are determined
Determined(a) == \A k \in 1..Len(a.shape) : a.shape[k] # Unknown
\* the sum of two dimensions
SumDim(a, b) == IF a = Unknown \/ b = Unknown THEN Unknown ELSE a + b
\* the transform the body should hold before projecting the corners
NormalizedArg == IF Perspective THEN DivByEntry(transf_arg, 3, 3) ELSE transf_arg
InverseOfArg == IF Perspective THEN Invert3(NormalizedArg) ELSE InvertAffine(NormalizedArg)
Identity3 == IntMatrix(<< <<1, 0, 0>>, <<0, 1, 0>>, <<0, 0, 1>> >>)
Identity2x3 == IntMatrix(<< <<1, 0, 0>>, <<0, 1, 0>> >>)
Returned == pc = "done"

(* -------------------------------- C1 ----------------------------------- *)
SingularArg ==
    /\ RightShape
    /\ IF Perspective THEN IsZero(Det3(NormalizedArg))
       ELSE IsZero(RSub(RMul(transf_arg[1][1], transf_arg[2][2]),
                        RMul(transf_arg[1][2], transf_arg[2][1])))
\* the argument is a valid transform: of the right shape, invertible, and a
\* 3x3 one with a bottom-right entry that is not 0
ValidArg ==
    /\ RightShape /\ ~SingularArg
    /\ Perspective => ~IsZero(transf_arg[3][3])
\* the coordinate v is in [0, hi]; a coordinate the model does not determine
\* is not held to be outside, and a canvas dimension it does not determine
\* is not held to be too small
InCanvas(v, hi) ==
    IF v = ANY \/ v = FINITE THEN TRUE
    ELSE IF ~IsFinite(v) THEN FALSE
    ELSE IF hi = Unknown THEN RLe(FromInt(0), v)
    ELSE Within(v, 0, hi)
\* C1: when a call on a valid transform returns, each of the four source
\* corners, projected through the shifted transform, has x in [0, padded
\* width] and y in [0, padded height] of the returned padded destination.
C1_CornersInsideCanvas ==
    (Returned /\ ValidArg) =>
        \A c \in Corners :
            LET q == Through(shifted_transf, c[1], c[2])
            IN  /\ InCanvas(q[1], dst_padded.shape[2])
                /\ InCanvas(q[2], dst_padded.shape[1])
\* the same for the calls whose four corners have a finite projection below
\* 2^63: the projections lie in [0, anchor + max] as soon as the transform is
\* shifted, and the returned canvas is at least anchor + max wide and high
C1_InsideWhenCornersFinite ==
    /\ (pc = "pad" /\ Valid) =>
        \A c \in Corners :
            LET q == Through(shifted_transf, c[1], c[2])
            IN  /\ Within(q[1], 0, Val(anchor_x) + Val(max_x))
                /\ Within(q[2], 0, Val(anchor_y) + Val(max_y))
    /\ (Returned /\ Valid) =>
        /\ Val(anchor_x) + Val(max_x) <= dst_padded.shape[2]
        /\ Val(anchor_y) + Val(max_y) <= dst_padded.shape[1]

(* -------------------------------- C2 ----------------------------------- *)
\* C2: the padded destination is the destination padded with zeros by
\* anchor_y rows on top, anchor_x columns on the left, max(max_y, dst_h) - dst_h
\* rows at the bottom and max(max_x, dst_w) - dst_w columns on the right, the
\* channel axis unpadded: height anchor_y + max(max_y, dst_h), width anchor_x +
\* max(max_x, dst_w), both at least the destination's, the destination's
\* cells at offset (anchor_y, anchor_x), every other cell 0.
C2_PaddedDestination ==
    Returned =>
        LET dst_h == dst.shape[1]
            dst_w == dst.shape[2]
            P == dst_padded
            moved == { IF Len(ix) = 2 THEN <<ix[1] + Val(anchor_y), ix[2] + Val(anchor_x)>>
                       ELSE <<ix[1] + Val(anchor_y), ix[2] + Val(anchor_x), ix[3]>> :
                       ix \in Indices(dst.shape) }
        IN  /\ P.shape[1] = SumDim(Dim(anchor_y), Dim(MaxWith(max_y, dst_h)))
            /\ P.shape[2] = SumDim(Dim(anchor_x), Dim(MaxWith(max_x, dst_w)))
            /\ P.shape[1] # Unknown => P.shape[1] >= dst_h
            /\ P.shape[2] # Unknown => P.shape[2] >= dst_w
            /\ Len(P.shape) = Len(dst.shape)
            /\ Len(dst.shape) = 3 => P.shape[3] = dst.shape[3]
            /\ Determined(P) =>
                 /\ \A ix \in Indices(dst.shape) :
                      P.px[IF Len(ix) = 2
                           THEN <<ix[1] + Val(anchor_y), ix[2] + Val(anchor_x)>>
                           ELSE <<ix[1] + Val(anchor_y), ix[2] + Val(anchor_x), ix[3]>>]
                        = dst.px[ix]
                 /\ \A ix \in Indices(P.shape) \ moved : P.px[ix] = 0
\* the translation by (-MaxShift, -MaxShift) on a square destination with
\* channels: anchors (MaxShift, MaxShift), the content starts at that offset
C2_Witness ==
    /\ Returned
    /\ transf_arg = IntMatrix(<< <<1, 0, -MaxShift>>, <<0, 1, -MaxShift>>, <<0, 0, 1>> >>)
    /\ flags_arg = INTER_LINEAR
    /\ src = <<MaxSrc, MaxSrc>> /\ dst.shape = <<MaxDst, MaxDst, 2>>
    /\ anchor_x = Int64(MaxShift) /\ anchor_y = Int64(MaxShift)
    /\ dst_padded.px[<<MaxShift, MaxShift, 0>>] = dst.px[<<0, 0, 0>>]
    /\ dst_padded.px[<<0, 0, 0>>] = 0

(* -------------------------------- C3 ----------------------------------- *)
\* C3: whenever the inverse-map bit is set in flags, whatever the interpolation
\* mode, the transform is replaced by its inverse before the corners are
\* projected and the bit is cleared from the flags given to the resampler;
\* otherwise transform and flags are used unchanged.
C3_InverseBitHonoured ==
    (pc \in {"project", "bounds", "shift", "pad", "warp", "done"}) =>
        /\ HasInverseBit(flags_arg) =>
             /\ transf = InverseOfArg
             /\ flags = flags_arg - WARP_INVERSE_MAP
             /\ Returned => src_warped.flags = flags_arg - WARP_INVERSE_MAP
        /\ ~HasInverseBit(flags_arg) =>
             /\ transf = NormalizedArg
             /\ flags = flags_arg
             /\ Returned => src_warped.flags = flags_arg

(* -------------------------------- C4 ----------------------------------- *)
\* C4: when inverse-map mode is requested with a singular transform the call
\* fails at the inversion: past that step the call has failed, nothing is
\* returned and the resampler has not been invoked.
C4_SingularInverseFails ==
    (SingularArg /\ InverseRequested(flags_arg)
       /\ pc \notin {"assert", "normalize", "inverse"}) =>
        /\ pc = "failed"
        /\ src_warped = NoCall

(* -------------------------------- C5 ----------------------------------- *)
\* C5: the returned padded destination and warped source have the same
\* height and width: the resampler is asked for exactly (padded width, padded
\* height).
C5_SameHeightAndWidth ==
    Returned =>
        /\ src_warped.dsize = <<dst_padded.shape[2], dst_padded.shape[1]>>
        /\ src_warped.shape = <<dst_padded.shape[1], dst_padded.shape[2]>>
\* a call has returned a canvas that is not square
C5_Witness ==
    /\ Returned
    /\ dst_padded.shape[1] # dst_padded.shape[2]
    /\ src_warped.shape[1] = dst_padded.shape[1]

(* -------------------------------- C6 ----------------------------------- *)
IdentityArg == transf_arg = (IF Perspective THEN Identity3 ELSE Identity2x3)
\* C6: for the identity transform with source and destination of the same
\* dimensions the anchors are (0, 0), every padding width is 0, the padded
\* destination is the destination, and the resampler is called with the
\* identity transform and the source's own dimensions.
C6_IdentityAddsNothing ==
    (Returned /\ IdentityArg /\ src = <<dst.shape[1], dst.shape[2]>>) =>
        /\ anchor_x = Int64(0) /\ anchor_y = Int64(0)
        /\ \A k \in 1..Len(pad_widths) : pad_widths[k] = <<Int64(0), Int64(0)>>
        /\ dst_padded = dst
        /\ src_warped.M = transf_arg
        /\ src_warped.dsize = <<src[2], src[1]>>
        /\ src_warped.shape = src
\* an identity call on equal, non-square images has returned
C6_Witness ==
    /\ Returned /\ IdentityArg
    /\ src = <<dst.shape[1], dst.shape[2]>>
    /\ src[1] # src[2]
    /\ dst_padded = dst

(* -------------------------------- C7 ----------------------------------- *)
\* the locals of a call on transform T (normalised) with the inverse-map bit
\* clear, for the source and destination of the current call
ForwardPts(T) ==
    IF Perspective THEN ProjectHomg(T, LinHomgPts(src[1], src[2]))
    ELSE ProjectAffine(T, LinPts(src[1], src[2]))
ForwardShifted(T, ax, ay) ==
    IF Perspective THEN ShiftHomg(T, ax, ay) ELSE ShiftAffine(T, ax, ay)
SameMatrix(a, b) ==
    /\ Shape(a) = Shape(b)
    /\ \A i \in 1..Len(a) : \A j \in 1..Len(a[i]) : SameValue(a[i][j], b[i][j])
\* the current call agrees with the call on the inverse of its argument,
\* when both are defined (the argument is invertible, its inverse can be
\* normalised, and the forward projection of the corners is finite): the
\* same values shown for the corners and the shifted transform, a bounding
\* box the forward call can yield, and the anchors of that box
RoundTripAgrees ==
    LET A == InverseOfArg
        T == IF Perspective THEN DivByEntry(A, 3, 3) ELSE A
        P == ForwardPts(T)
    IN  (/\ ~SingularArg
         /\ Perspective => ~IsZero(A[3][3])
         /\ AllFinite(P)) =>
            /\ SameMatrix(pts, P)
            /\ <<min_x, max_x>> \in RowBounds(P[1], "indefinite")
            /\ <<min_y, max_y>> \in RowBounds(P[2], "indefinite")
            /\ anchor_x = Anchor(min_x) /\ anchor_y = Anchor(min_y)
            /\ SameMatrix(shifted_transf,
                          ForwardShifted(T, Anchor(min_x), Anchor(min_y)))
\* and the padding widths are those of that box
RoundTripPads ==
    pad_widths = PadWidths(dst.shape, Anchor(min_x), Anchor(min_y), max_x, max_y)
\* C7: a call given the inverse of T with the inverse-map bit set yields the
\* projected corners, bounding box, anchors, padding widths and shifted
\* transform of the call given T with the bit clear.
C7_InverseRoundTrip ==
    /\ (pc = "pad" /\ HasInverseBit(flags_arg)) => RoundTripAgrees
    /\ (Returned /\ HasInverseBit(flags_arg)) => RoundTripPads
\* the same for the two flag values the body recognises
C7_RoundTripWhenRecognised ==
    /\ (pc = "pad" /\ InverseRequested(flags_arg)) => RoundTripAgrees
    /\ (Returned /\ InverseRequested(flags_arg)) => RoundTripPads

(* -------------------------------- C8 ----------------------------------- *)
\* C8: a transform of the wrong shape makes the call fail with the shape
\* assertion as its first step: the transform is not normalised or inverted,
\* no image is read, nothing is padded or resampled.
C8_WrongShapeFailsFirst ==
    (~RightShape /\ pc # "assert") =>
        /\ pc = "failed" /\ err = "AssertionError"
        /\ trace = <<"transf.shape">>
        /\ transf = transf_arg /\ flags = flags_arg
        /\ src = <<>> /\ dst = NoArray
        /\ dst_padded = NoArray /\ src_warped = NoCall
\* the perspective function has refused a 2x3 matrix
C8_Witness ==
    /\ Perspective /\ Shape(transf_arg) = <<2, 3>>
    /\ pc = "failed" /\ err = "AssertionError"

(* -------------------------------- C9 ----------------------------------- *)
\* max(0, -mn) for an int64 mn
MaxZeroNeg(mn) == IF IsNeg(mn) THEN <<-mn[1], -mn[2]>> ELSE Int64(0)
\* the float b is the float e, as far as the model determines both
Agrees(b, e) ==
    IF b \in {ANY, FINITE} \/ e \in {ANY, FINITE} THEN TRUE
    ELSE IF IsFinite(b) /\ IsFinite(e) THEN SameValue(b, e)
    ELSE ~IsFinite(b) /\ ~IsFinite(e)
\* C9: the shifted transform is the (possibly inverted) transform composed
\* with the translation by (anchor_x, anchor_y), anchor = max(0, -min): every
\* source point's projection through the shifted transform is its projection
\* through the transform plus the anchors, the offset by which the
\* destination content moves; perspective: renormalised so that the [2, 2]
\* entry is 1; affine: the linear part is unchanged.  Stated of the calls on
\* a valid transform only, so that a failure owes nothing to a singular or
\* degenerate argument.
C9_ShiftedIsTranslated ==
    /\ (pc = "pad" /\ ValidArg) =>
        /\ min_x # ANYINT => anchor_x = MaxZeroNeg(min_x)
        /\ min_y # ANYINT => anchor_y = MaxZeroNeg(min_y)
        /\ \A p \in SourcePoints :
             LET a == Through(transf, p[1], p[2])
                 b == Through(shifted_transf, p[1], p[2])
             IN  (IsFinite(a[1]) /\ IsFinite(a[2])) =>
                    /\ Agrees(b[1], RAdd(a[1], AnchorFloat(anchor_x)))
                    /\ Agrees(b[2], RAdd(a[2], AnchorFloat(anchor_y)))
        /\ (Perspective /\ IsFinite(shifted_transf[3][3])) =>
             shifted_transf[3][3] = FromInt(1)
        /\ ~Perspective =>
             \A i \in 1..2 : \A j \in 1..2 : shifted_transf[i][j] = transf[i][j]
    /\ (Returned /\ ValidArg) =>
        /\ src_warped.M = shifted_transf
        /\ pad_widths[1][1] = anchor_y /\ pad_widths[2][1] = anchor_x
        /\ Determined(dst_padded) =>
             dst_padded.px[IF Len(dst.shape) = 2 THEN <<Val(anchor_y), Val(anchor_x)>>
                           ELSE <<Val(anchor_y), Val(anchor_x), 0>>]
               = dst.px[IF Len(dst.shape) = 2 THEN <<0, 0>> ELSE <<0, 0, 0>>]
\* the same for the calls whose four corners have a finite projection below
\* 2^63
C9_TranslatedWhenCornersFinite ==
    /\ (pc = "pad" /\ Valid) =>
        /\ anchor_x = Int64(Max2(0, -Val(min_x)))
        /\ anchor_y = Int64(Max2(0, -Val(min_y)))
        /\ \A p \in SourcePoints :
             LET a == Through(transf, p[1], p[2])
                 b == Through(shifted_transf, p[1], p[2])
             IN  (IsFinite(a[1]) /\ IsFinite(a[2])) =>
                    /\ SameValue(b[1], RAdd(a[1], FromInt(Val(anchor_x))))
                    /\ SameValue(b[2], RAdd(a[2], FromInt(Val(anchor_y))))
        /\ Perspective => shifted_transf[3][3] = FromInt(1)
        /\ ~Perspective =>
             \A i \in 1..2 : \A j \in 1..2 : shifted_transf[i][j] = transf[i][j]
    /\ (Returned /\ Valid) =>
        /\ src_warped.M = shifted_transf
        /\ pad_widths[1][1] = anchor_y /\ pad_widths[2][1] = anchor_x
        /\ dst_padded.px[IF Len(dst.shape) = 2 THEN <<Val(anchor_y), Val(anchor_x)>>
                         ELSE <<Val(anchor_y), Val(anchor_x), 0>>]
             = dst.px[IF Len(dst.shape) = 2 THEN <<0, 0>> ELSE <<0, 0, 0>>]

(* -------------------------------- C10 ---------------------------------- *)
\* C10: the bounding box from floor of the minima and ceil of the maxima of
\* the four projected corners holds the projection of every point of the
\* source rectangle [0, w] x [0, h], for every valid affine transform and
\* every valid homography.
C10_BoxHoldsWholeSource ==
    (pc = "shift" /\ Valid) =>
        \A p \in SourcePoints :
            LET q == Through(transf, p[1], p[2])
            IN  /\ Within(q[1], Val(min_x), Val(max_x))
                /\ Within(q[2], Val(min_y), Val(max_y))
\* the same for the affine function alone
C10_AffineBoxHoldsWholeSource ==
    (pc = "shift" /\ Valid /\ ~Perspective) =>
        \A p \in SourcePoints :
            LET q == Through(transf, p[1], p[2])
            IN  /\ Within(q[1], Val(min_x), Val(max_x))
                /\ Within(q[2], Val(min_y), Val(max_y))
====
